---------------------------- MODULE Spec2Model ----------------------------
(***************************************************************************)
(* Model of the TestForge test orchestrator (orchestration/testOrchestrator *)
(* = src/unnamed/part_000) and of the collaborators it calls:               *)
(* utils/testDataManager (src/unnamed/part_003), utils/browserManager,      *)
(* utils/mcpClient and TestDataSeeder                                       *)
(* (src/tests/examples/orchestratedWorkflow.spec.js).                       *)
(*                                                                          *)
(* A JavaScript object is a function whose DOMAIN is the set of its own     *)
(* keys, so that an absent field (undefined) differs from an empty array.   *)
(* Timestamps (new Date().toISOString()) are left out of every record: no   *)
(* code path reads them.                                                    *)
(***************************************************************************)
EXTENDS Integers, Sequences, FiniteSets, TLC

(***************************************************************************)
(* Bounds of the model.                                                     *)
(***************************************************************************)
MaxSteps == 3
MaxRuns == 2

(***************************************************************************)
(* JavaScript helpers.                                                      *)
(***************************************************************************)
\* the value of a missing argument or field
Undefined == "undefined"

\* the object literal {}
EmptyObj == [k \in {} |-> Undefined]

\* { ...a, ...b }: own keys of both, b's value on a key of both
Spread(a, b) ==
  [k \in (DOMAIN a) \cup (DOMAIN b) |-> IF k \in DOMAIN b THEN b[k] ELSE a[k]]

\* (obj.key || []) for an array-valued field
OrEmpty(obj, key) == IF key \in DOMAIN obj THEN obj[key] ELSE << >>

\* `step_${index}`
StepName(index) == "step_" \o ToString(index)

VARIABLES
  scPc,       \* position of the scenario callable: idle, loop, returned
  scSteps,    \* the steps array given to createTestScenario (step kinds)
  scArgs,     \* the arguments the callable was invoked with: [state, handles]
  scIndex,    \* index of the for loop
  scCur,      \* currentState
  scResults,  \* results
  scCalls,    \* spy: one record per step invocation, with its arguments
  scThrew,    \* spy: indices of the steps that threw
  scDeltas,   \* spy: the deltas the steps returned, in order
  scRet       \* the state the callable resolved with

scVars == <<scPc, scSteps, scArgs, scIndex, scCur, scResults, scCalls, scThrew, scDeltas, scRet>>

VARIABLES
  orchState,      \* testOrchestrator.state, the facade's stored seed state
  testDataCache,  \* testDataManager.testDataCache
  bm,             \* the browserManager singleton: browser, context, page, configs
  nextBrowser,    \* identity of the next browser the launcher creates
  closeCalls,     \* spy: the browsers close() has been called on
  initCalls,      \* spy: number of browserManager.initialize() calls
  runs,           \* number of runTest invocations so far
  rtPc,           \* position of runTest: idle, a node of the graph, done, catch, returned, raised
  rtOptions,      \* the options of the current runTest
  st,             \* the state of the graph engine
  rtPath,         \* spy: the nodes executed in the current run, in order
  rtEnv,          \* spy: what the capabilities did in the current run
  rtBefore,       \* spy: the engine's state before the last node's delta was merged
  rtDelta,        \* spy: the delta the last node returned
  rtCatchArg,     \* the state the catch block handed to _teardown
  rtError,        \* the error runTest raised
  rtResult        \* the state runTest returned

wfVars == <<orchState, testDataCache, bm, nextBrowser, closeCalls, initCalls, runs,
            rtPc, rtOptions, st, rtPath, rtEnv, rtBefore, rtDelta, rtCatchArg, rtError,
            rtResult>>

VARIABLES
  accPc,     \* position of the engine's accumulation: idle, merging
  accState,  \* the state the engine accumulates
  accLog,    \* spy: the deltas merged so far, in order
  accHist    \* spy: accHist[i] is the state accLog[i] was merged into

accVars == <<accPc, accState, accLog, accHist>>

VARIABLES
  tdPending,    \* getTestData calls awaiting mcpClient.getTestData: key, cache, refresh,
                \* and as spies the cache at the call's start and whether another
                \* operation has changed the cache since
  tdCalls,      \* number of getTestData invocations so far
  tdFetchedOk,  \* spy: keys fetched successfully with caching and not cleared since
  tdLast,       \* spy: the last getTestData invocation and what it did
  tdLastClear,  \* spy: the last clearCache invocation, the cache before and after
  tdLastFail    \* spy: the last getTestData that threw, its error and the cache after it

tdVars == <<tdPending, tdCalls, tdFetchedOk, tdLast, tdLastClear, tdLastFail>>

VARIABLES
  createdData,  \* testDataSeeder.createdData: entries [entity, items] in insertion order
  sdPending,    \* _seedSingle calls awaiting their POST: [n, entity, cleanup]
  sdStarted,    \* number of _seedSingle calls so far; call n creates the item with id n
  clPc,         \* position of cleanup(): idle, deleting (awaiting a DELETE)
  clEntities,   \* entities of cleanup(): the entity names, reversed
  clE,          \* index of the outer for loop of cleanup() (1-based)
  clI,          \* index of the inner for loop of cleanup() (1-based)
  clTracked,    \* spy: ids tracked when the running cleanup() started
  clAttempted,  \* spy: ids the running cleanup() has called DELETE for
  clFailed,     \* spy: ids whose DELETE threw in the running cleanup()
  clLast        \* spy: what the last finished cleanup() did

sdVars == <<createdData, sdPending, sdStarted, clPc, clEntities, clE, clI, clTracked,
            clAttempted, clFailed, clLast>>

VARIABLES
  mcPc,         \* position of a request of mcpClient: idle, sending, inflight, resolved, rejected
  mcToken,      \* accessToken / tokenExpiry: none, valid, expired
  mcRetry,      \* originalRequest._retry
  mcRequests,   \* number of requests made so far
  mcSends,      \* spy: times the current request was sent to the server
  mcReauths,    \* spy: authenticate() calls of the response interceptor for the current request
  mcAuths,      \* spy: outcomes of all authenticate() calls for the current request, in order
  mcResponses,  \* spy: the statuses the server answered the current request with, in order
  mcError       \* what the current request was rejected with

mcVars == <<mcPc, mcToken, mcRetry, mcRequests, mcSends, mcReauths, mcAuths, mcResponses,
            mcError>>

VARIABLES
  bmCall,        \* per caller: the browserManager call it awaits, and the object the
                 \* awaited Playwright call acts on
  bmGot,         \* per caller: the browser, context and page its calls returned
  bmHist,        \* spy: per caller, the calls it has completed, in order
  bmCtxBrowser,  \* spy: for each context created, the browser it was created on
  bmPageCtx,     \* spy: for each page created, the context it was created on
  bmNextId,      \* identity of the next browser, context or page Playwright creates
  bmOps          \* number of browserManager calls made so far

bmVars == <<bmCall, bmGot, bmHist, bmCtxBrowser, bmPageCtx, bmNextId, bmOps>>

vars == <<scVars, wfVars, accVars, tdVars, sdVars, mcVars, bmVars>>

\* what the scenario runner leaves alone, what runTest leaves alone, what the
\* engine's accumulation leaves alone and what testDataManager leaves alone
notSc == <<wfVars, accVars, tdVars, sdVars, mcVars, bmVars>>
notWf == <<scVars, accVars, tdVars, sdVars, mcVars, bmVars>>
notAcc == <<scVars, wfVars, tdVars, sdVars, mcVars, bmVars>>
notSd == <<scVars, wfVars, accVars, tdVars, mcVars, bmVars>>
notMc == <<scVars, wfVars, accVars, tdVars, sdVars, bmVars>>
notBm == <<scVars, accVars, tdVars, sdVars, mcVars, orchState, testDataCache, nextBrowser,
           closeCalls, initCalls, runs, rtPc, rtOptions, st, rtPath, rtEnv, rtBefore,
           rtDelta, rtCatchArg, rtError, rtResult>>
notTd == <<scVars, accVars, sdVars, mcVars, bmVars, orchState, bm, nextBrowser, closeCalls, initCalls, runs,
           rtPc, rtOptions, st, rtPath, rtEnv, rtBefore, rtDelta, rtCatchArg, rtError,
           rtResult>>

(***************************************************************************)
(* Step functions of the callers (tests/mcp/mcpIntegration.spec.js,         *)
(* tests/examples/orchestratedWorkflow.spec.js).  A step is called with the *)
(* arguments args = <<state, handles>> and either returns a delta or        *)
(* throws.                                                                  *)
(***************************************************************************)
StepKinds == {"loadData", "loadDataFails", "genUser", "setup", "login", "navigate"}

\* the steps declared as (state, { page }) => ...
NeedsPage == {"login", "navigate"}

DestructureError == "TypeError: Cannot destructure property 'page' of 'undefined'"
NotIterableError == "TypeError: state.testResults is not iterable"
DataError == "Test data not found for key: test-config"

Returns(delta) == [threw |-> FALSE, error |-> "", delta |-> delta]
Throws(msg) == [threw |-> TRUE, error |-> msg, delta |-> EmptyObj]

StepCall(kind, args) ==
  LET state == args[1]
      handles == args[2]
  IN  IF kind \in NeedsPage /\ handles = Undefined THEN Throws(DestructureError)
      ELSE CASE kind = "loadData" -> Returns([testData |-> "remote"])
             [] kind = "loadDataFails" -> Throws(DataError)
             [] kind = "genUser" -> Returns([testUser |-> "admin"])
             [] kind = "setup" ->
                  Returns([testData |-> "seeded",
                           testResults |-> <<[step |-> "setup", status |-> "success"]>>])
             [] kind = "login" ->
                  IF "testResults" \in DOMAIN state
                  THEN Returns([testResults |->
                         Append(state.testResults, [step |-> "login", status |-> "success"])])
                  ELSE Throws(NotIterableError)
             [] kind = "navigate" -> Returns([navigationComplete |-> TRUE])

(***************************************************************************)
(* TestOrchestrator.createTestScenario                                      *)
(***************************************************************************)
\* the arguments of step(currentState): the callable takes (state) only and
\* calls each step with one argument
StepArgs(cur, handles) == <<cur, Undefined>>

SuccessOutcome(index) == [step |-> StepName(index), status |-> "success"]

FailedOutcome(index, msg) == [step |-> StepName(index), status |-> "failed", error |-> msg]

ScenarioError(index, msg) == [step |-> StepName(index), error |-> msg]

\* variant: a key the state already has keeps its value
MergeDelta_EarlierWins(cur, delta) == Spread(delta, cur)

\* currentState = { ...currentState, ...result }
MergeDelta(cur, delta) == Spread(cur, delta)

\* variant: the catch block returns only what this call produced
FailureReturn_OnlyOwn(cur, results, index, msg) ==
  Spread(cur, [testResults |-> results, errors |-> <<ScenarioError(index, msg)>>])

\* the return of the catch block
FailureReturn(cur, results, index, msg) ==
  Spread(cur, [testResults |-> OrEmpty(cur, "testResults") \o results,
               errors |-> Append(OrEmpty(cur, "errors"), ScenarioError(index, msg))])

\* variant: the return after the loop keeps only the outcomes of this call
SuccessReturn_OnlyOwn(cur, results) == Spread(cur, [testResults |-> results])

\* the return after the loop
SuccessReturn(cur, results) ==
  Spread(cur, [testResults |-> OrEmpty(cur, "testResults") \o results])

\* states a caller hands to the callable
OldOutcome == [step |-> "earlier", status |-> "success"]
OldError == [step |-> "earlier", error |-> "earlier failure"]
ScenarioStates ==
  { [testResults |-> << >>, testData |-> "initial"],
    EmptyObj,
    [testResults |-> <<OldOutcome>>, testData |-> "initial", errors |-> <<OldError>>] }

HandlesIn == {Undefined, "page"}

RECURSIVE SeqsUpTo(_, _)
SeqsUpTo(S, n) ==
  IF n = 0 THEN { << >> }
  ELSE LET shorter == SeqsUpTo(S, n - 1)
       IN  shorter \cup { Append(s, x) : s \in shorter, x \in S }

ScenarioInit ==
  /\ scPc = "idle"
  /\ scSteps = << >>
  /\ scArgs = <<EmptyObj, Undefined>>
  /\ scIndex = 0
  /\ scCur = EmptyObj
  /\ scResults = << >>
  /\ scCalls = << >>
  /\ scThrew = {}
  /\ scDeltas = << >>
  /\ scRet = EmptyObj

\* scenario = createTestScenario(steps); scenario(state, handles)
ScenarioInvoke ==
  /\ scPc = "idle"
  /\ \E steps \in SeqsUpTo(StepKinds, MaxSteps), state \in ScenarioStates, handles \in HandlesIn :
       /\ scSteps' = steps
       /\ scArgs' = <<state, handles>>
       /\ scCur' = Spread(EmptyObj, state)
  /\ scResults' = << >>
  /\ scIndex' = 0
  /\ scPc' = "loop"
  /\ UNCHANGED <<scCalls, scThrew, scDeltas, scRet>>
  /\ UNCHANGED notSc

\* variant: the catch block does not return and the loop goes on
AfterFailure_Continue(cur, results, index, msg) ==
  /\ scIndex' = index + 1
  /\ UNCHANGED <<scCur, scPc, scRet>>

\* after a step threw: the catch block returns
AfterFailure(cur, results, index, msg) ==
  /\ scRet' = FailureReturn(cur, results, index, msg)
  /\ scPc' = "returned"
  /\ UNCHANGED <<scCur, scIndex>>

\* one iteration of the for loop
ScenarioStep ==
  /\ scPc = "loop"
  /\ scIndex < Len(scSteps)
  /\ LET args == StepArgs(scCur, scArgs[2])
         out == StepCall(scSteps[scIndex + 1], args)
     IN  /\ scCalls' = Append(scCalls, [index |-> scIndex, state |-> args[1], handles |-> args[2]])
         /\ \/ /\ ~out.threw
               /\ scCur' = MergeDelta(scCur, out.delta)
               /\ scDeltas' = Append(scDeltas, out.delta)
               /\ scResults' = Append(scResults, SuccessOutcome(scIndex))
               /\ scIndex' = scIndex + 1
               /\ UNCHANGED <<scPc, scThrew, scRet>>
            \/ /\ out.threw
               /\ scResults' = Append(scResults, FailedOutcome(scIndex, out.error))
               /\ scThrew' = scThrew \cup {scIndex}
               /\ UNCHANGED scDeltas
               /\ AfterFailure(scCur, scResults', scIndex, out.error)
  /\ UNCHANGED <<scSteps, scArgs>>
  /\ UNCHANGED notSc

\* the loop is over
ScenarioFinish ==
  /\ scPc = "loop"
  /\ scIndex = Len(scSteps)
  /\ scRet' = SuccessReturn(scCur, scResults)
  /\ scPc' = "returned"
  /\ UNCHANGED <<scSteps, scArgs, scIndex, scCur, scResults, scCalls, scThrew, scDeltas>>
  /\ UNCHANGED notSc

ScenarioNext == ScenarioInvoke \/ ScenarioStep \/ ScenarioFinish

(***************************************************************************)
(* The workflow of TestOrchestrator: the state schema and its reducers.     *)
(***************************************************************************)
SeqFields == {"testResults", "errors"}

\* a reducer that puts the updates of a sequence field in front
Reducer_Prepend(field, existing, updates) ==
  IF field \in SeqFields THEN updates \o existing ELSE Spread(existing, updates)

\* a reducer in which the existing value of a key of a mapping field wins
Reducer_EarlierWins(field, existing, updates) ==
  IF field \in SeqFields THEN existing \o updates ELSE Spread(updates, existing)

\* stateSchema: the reducer of each field
Reducer(field, existing, updates) ==
  IF field \in SeqFields THEN existing \o updates ELSE Spread(existing, updates)

\* an engine that resets a field the delta has no value for to the schema's
\* default value
ApplyDelta_ResetAbsent(state, delta) ==
  [f \in DOMAIN state |->
     IF f \in DOMAIN delta THEN Reducer(f, state[f], delta[f])
     ELSE IF f \in SeqFields THEN << >> ELSE EmptyObj]

\* the engine merges a node's delta into its state, field by field, with the
\* field's reducer; a field the delta has no value for is left alone
ApplyDelta(state, delta) ==
  [f \in DOMAIN state |->
     IF f \in DOMAIN delta THEN Reducer(f, state[f], delta[f]) ELSE state[f]]

\* this.state of the constructor
SeedState ==
  [testResults |-> << >>, testData |-> EmptyObj, browserContexts |-> EmptyObj, errors |-> << >>]

Nodes == {"setupTestData", "setupBrowser", "executeTest", "teardown", "handleError"}

\* addEdge(from, to)
Edges ==
  { <<"setupTestData", "setupBrowser">>, <<"setupBrowser", "executeTest">>,
    <<"executeTest", "teardown">>,
    <<"setupTestData", "handleError">>, <<"setupBrowser", "handleError">>,
    <<"executeTest", "handleError">>, <<"handleError", "teardown">> }

EntryPoint == "setupTestData"

FinishPoint == "teardown"

\* where the engine may go after a node: along an edge the graph declares, or
\* to the end after the finish point.  The source attaches no condition to any
\* edge, so every declared edge is a possible continuation.
NextNodes(node) ==
  IF node = FinishPoint THEN {"done"} ELSE { e[2] : e \in { d \in Edges : d[1] = node } }

(***************************************************************************)
(* The nodes: each takes the engine's state and returns a delta.            *)
(***************************************************************************)
Outcome(step, status) == [step |-> step, status |-> status]

ErrorRecord(step, msg) == [step |-> step, error |-> msg]

\* _setupTestData, when getTestData resolved with data
SetupTestDataOk(state, data) ==
  [testData |-> data, testResults |-> <<Outcome("setupTestData", "success")>>]

\* _setupTestData, when getTestData rejected
SetupTestDataFailed(state, msg) ==
  [errors |-> <<ErrorRecord("setupTestData", msg)>>]

\* _setupBrowser, when browser, context and page were acquired
SetupBrowserOk(state, bundle) ==
  [browserContexts |-> [default |-> bundle],
   testResults |-> Append(state.testResults, Outcome("setupBrowser", "success"))]

\* _setupBrowser, catch block
SetupBrowserFailed(state, msg) ==
  Spread(state, [errors |-> Append(OrEmpty(state, "errors"), ErrorRecord("setupBrowser", msg))])

\* _executeTest, when the page answered with a title
ExecuteTestOk(state, title) ==
  [testResults |->
     Append(state.testResults,
            [step |-> "executeTest",
             status |-> IF title = "Example Domain" THEN "success" ELSE "failed",
             details |-> [title |-> title]])]

\* _executeTest, catch block
ExecuteTestFailed(state, msg) ==
  Spread(state, [errors |-> Append(OrEmpty(state, "errors"), ErrorRecord("executeTest", msg))])

\* _handleError
HandleErrorDelta(state) ==
  Spread(state, [testResults |->
    Append(state.testResults,
           [step |-> "handleError", status |-> "error", errors |-> state.errors])])

\* _teardown: the browsers close() is called on, one per recorded context
\* that has a browser; the try/catch is inside the loop
TeardownCloses(state) ==
  IF "browserContexts" \in DOMAIN state
  THEN { state.browserContexts[c].browser : c \in DOMAIN state.browserContexts }
  ELSE {}

\* variant: close() is called outside any try block
TeardownRethrows_NoTry == TRUE

\* _teardown: whether an error of close() leaves _teardown
TeardownRethrows == FALSE

\* a _teardown that returns the state without an outcome of its own
TeardownDelta_NoOutcome(state) == state

\* _teardown: the value returned
TeardownDelta(state) ==
  Spread(state, [testResults |-> Append(state.testResults, Outcome("teardown", "completed"))])

(***************************************************************************)
(* Capabilities the nodes call.                                             *)
(***************************************************************************)
TestConfigs == { [baseUrl |-> "https://example.com"], [environment |-> "staging"] }

Titles == {"Example Domain", "Welcome"}

OptionsIn == { EmptyObj, [baseUrl |-> "https://override.test"] }

DefaultConfigs == {"chromium", "firefox", "webkit"}

LaunchError == "browserType.launch: failed"
ContextError == "browser.newContext: failed"
PageError == "context.newPage: failed"
NavigationError == "page.goto: failed"
CloseError == "browser.close: failed"
EngineError == "graph engine failure"
NoDefaultError == "TypeError: Cannot destructure property 'page' of 'browserContexts.default'"

NoEnv == [data |-> "none", browser |-> "none", page |-> "none", closeThrew |-> {}]

WorkflowInit ==
  /\ orchState = SeedState
  /\ testDataCache = EmptyObj
  /\ bm = [browser |-> 0, context |-> 0, page |-> 0, configs |-> DefaultConfigs]
  /\ nextBrowser = 1
  /\ closeCalls = {}
  /\ initCalls = 0
  /\ runs = 0
  /\ rtPc = "idle"
  /\ rtOptions = EmptyObj
  /\ st = SeedState
  /\ rtPath = << >>
  /\ rtEnv = NoEnv
  /\ rtBefore = SeedState
  /\ rtDelta = EmptyObj
  /\ rtCatchArg = EmptyObj
  /\ rtError = ""
  /\ rtResult = EmptyObj

(***************************************************************************)
(* The engine's accumulation of deltas with the reducers of stateSchema,    *)
(* from any initial state and for any sequence of deltas.                   *)
(***************************************************************************)
MaxDeltas == 2

ResultA == [step |-> "a", status |-> "success"]
ResultB == [step |-> "b", status |-> "failed"]

\* initial states handed to the engine: the seed, and a state with content
AccStates ==
  { SeedState,
    [testResults |-> <<ResultA>>, testData |-> [x |-> 0, z |-> 0],
     browserContexts |-> EmptyObj, errors |-> << >>] }

\* what a delta can carry for each field of the schema (EmptyObj: nothing)
ResultsDeltas == { EmptyObj, [testResults |-> <<ResultA>>], [testResults |-> <<ResultB>>] }
ErrorsDeltas == { EmptyObj, [errors |-> <<ErrorRecord("a", DataError)>>] }
DataDeltas ==
  { EmptyObj, [testData |-> [x |-> 1]], [testData |-> [x |-> 2]], [testData |-> [y |-> 1]] }
ContextsDeltas == { EmptyObj, [browserContexts |-> [default |-> 1]] }

AccumulatorInit ==
  /\ accPc = "idle"
  /\ accState = SeedState
  /\ accLog = << >>
  /\ accHist = << >>

\* compiledWorkflow.invoke(initialState): the engine starts from initialState
AccumulatorStart ==
  /\ accPc = "idle"
  /\ \E state \in AccStates : accState' = state
  /\ accPc' = "merging"
  /\ UNCHANGED <<accLog, accHist>>
  /\ UNCHANGED notAcc

\* the engine merges the delta a node returned
AccumulatorMerge ==
  /\ accPc = "merging"
  /\ Len(accLog) < MaxDeltas
  /\ \E r \in ResultsDeltas, e \in ErrorsDeltas, d \in DataDeltas, c \in ContextsDeltas :
       LET delta == Spread(Spread(Spread(r, e), d), c)
       IN  /\ accState' = ApplyDelta(accState, delta)
           /\ accLog' = Append(accLog, delta)
           /\ accHist' = Append(accHist, accState)
  /\ UNCHANGED accPc
  /\ UNCHANGED notAcc

AccumulatorNext == AccumulatorStart \/ AccumulatorMerge

(***************************************************************************)
(* utils/testDataManager: getTestData and clearCache, called in any order   *)
(* and with calls of getTestData in flight at the same time.                *)
(***************************************************************************)
MaxCalls == 2

Keys == {"test-config", "users", ""}

\* if (key): undefined and the empty string are falsy
Truthy(key) == key # Undefined /\ key # ""

\* testDataCache after clearCache(key)
CacheAfterClear(cache, key) ==
  IF Truthy(key) THEN [k \in (DOMAIN cache) \ {key} |-> cache[k]] ELSE EmptyObj

NoCall == [key |-> Undefined, cache |-> FALSE, refresh |-> FALSE, known |-> FALSE,
           fetched |-> FALSE, hit |-> FALSE]

NoClear == [called |-> FALSE, key |-> Undefined, before |-> EmptyObj, after |-> EmptyObj]

NoFail == [called |-> FALSE, key |-> Undefined, refresh |-> FALSE, error |-> "",
           atStart |-> EmptyObj, disturbed |-> FALSE, after |-> EmptyObj]

\* `Test data not found for key: ${key}`
NotFoundError(key) == "Test data not found for key: " \o key

\* a catch block that evicts the key whose fetch failed
CacheAfterFailure_Evicts(cache, key) == [k \in (DOMAIN cache) \ {key} |-> cache[k]]

\* getTestData, catch block: logs and throws, the cache is not touched
CacheAfterFailure(cache, key) == cache

\* spy: the calls in flight, marked when an operation changed the cache
Disturbed(pending, before, after) ==
  IF before = after THEN pending ELSE { [p EXCEPT !.disturbed = TRUE] : p \in pending }

DataManagerInit ==
  /\ tdPending = {}
  /\ tdCalls = 0
  /\ tdFetchedOk = {}
  /\ tdLast = NoCall
  /\ tdLastClear = NoClear
  /\ tdLastFail = NoFail

\* getTestData(key, { cache, refresh }) up to the return of the cached value
\* or the await of mcpClient.getTestData(key)
GetTestDataStart ==
  /\ tdCalls < MaxCalls
  /\ tdCalls' = tdCalls + 1
  /\ \E key \in Keys, cache \in BOOLEAN, refresh \in BOOLEAN :
       LET hit == cache /\ ~refresh /\ key \in DOMAIN testDataCache
       IN  /\ tdLast' = [key |-> key, cache |-> cache, refresh |-> refresh,
                         known |-> key \in tdFetchedOk, fetched |-> ~hit, hit |-> hit]
           /\ tdPending' = IF hit THEN tdPending
                           ELSE tdPending \cup
                                {[key |-> key, cache |-> cache, refresh |-> refresh,
                                  atStart |-> testDataCache, disturbed |-> FALSE]}
  /\ UNCHANGED <<testDataCache, tdFetchedOk, tdLastClear, tdLastFail>>
  /\ UNCHANGED notTd

\* mcpClient.getTestData(key) resolved with data
GetTestDataResolve ==
  /\ \E call \in tdPending, data \in TestConfigs :
       /\ testDataCache' = IF call.cache
                             THEN Spread(testDataCache, [k \in {call.key} |-> data])
                             ELSE testDataCache
       /\ tdPending' = Disturbed(tdPending \ {call}, testDataCache, testDataCache')
       /\ tdFetchedOk' = IF call.cache THEN tdFetchedOk \cup {call.key} ELSE tdFetchedOk
  /\ UNCHANGED <<tdCalls, tdLast, tdLastClear, tdLastFail>>
  /\ UNCHANGED notTd

\* mcpClient.getTestData(key) rejected: getTestData throws NotFoundError(key)
GetTestDataReject ==
  /\ \E call \in tdPending :
       /\ testDataCache' = CacheAfterFailure(testDataCache, call.key)
       /\ tdPending' = Disturbed(tdPending \ {call}, testDataCache, testDataCache')
       /\ tdLastFail' = [called |-> TRUE, key |-> call.key, refresh |-> call.refresh,
                         error |-> NotFoundError(call.key), atStart |-> call.atStart,
                         disturbed |-> call.disturbed, after |-> testDataCache']
  /\ UNCHANGED <<tdCalls, tdFetchedOk, tdLast, tdLastClear>>
  /\ UNCHANGED notTd

\* clearCache(key), and clearCache() as key = Undefined
ClearCache ==
  /\ \E key \in Keys \cup {Undefined} :
       /\ testDataCache' = CacheAfterClear(testDataCache, key)
       /\ tdLastClear' = [called |-> TRUE, key |-> key, before |-> testDataCache,
                          after |-> testDataCache']
       /\ tdFetchedOk' = IF key = Undefined THEN {} ELSE tdFetchedOk \ {key}
       /\ tdPending' = Disturbed(tdPending, testDataCache, testDataCache')
  /\ UNCHANGED <<tdCalls, tdLast, tdLastFail>>
  /\ UNCHANGED notTd

DataManagerNext ==
  \/ GetTestDataStart
  \/ GetTestDataResolve
  \/ GetTestDataReject
  \/ ClearCache

(***************************************************************************)
(* TestDataSeeder: seed / _seedSingle and cleanup, with seeds in flight     *)
(* while cleanup() is suspended at an await.  One cleanup() runs at a time. *)
(***************************************************************************)
MaxSeeds == 3

Entities == {"users", "products"}

Reverse(s) == [i \in 1..Len(s) |-> s[Len(s) + 1 - i]]

\* the ids of every tracked item
TrackedIds(data) == UNION { { data[e].items[i] : i \in 1..Len(data[e].items) } : e \in 1..Len(data) }

\* this.createdData.get(entity), [] for an entity without entry
ItemsOf(data, entity) ==
  IF \E e \in 1..Len(data) : data[e].entity = entity
  THEN data[CHOOSE e \in 1..Len(data) : data[e].entity = entity].items
  ELSE << >>

\* _seedSingle's tracking: createdData.set(entity, []) if absent, then push
Track(data, entity, id) ==
  IF \E e \in 1..Len(data) : data[e].entity = entity
  THEN [e \in 1..Len(data) |->
          IF data[e].entity = entity
          THEN [data[e] EXCEPT !.items = Append(@, id)] ELSE data[e]]
  ELSE Append(data, [entity |-> entity, items |-> <<id>>])

\* the two for...of loops of cleanup(): the first position from (e, i) on that
\* holds an item, the item arrays read as they are now; e beyond the
\* entities when the loops are over
RECURSIVE Advance(_, _, _, _)
Advance(entities, data, e, i) ==
  IF e > Len(entities) THEN [e |-> e, i |-> 1]
  ELSE IF i <= Len(ItemsOf(data, entities[e])) THEN [e |-> e, i |-> i]
  ELSE Advance(entities, data, e + 1, 1)

\* a cleanup() whose catch block rethrows
AfterDeleteFailure_Rethrow == "abort"

\* cleanup(): the catch block around a DELETE logs, and the loop goes on
AfterDeleteFailure == "continue"

NoCleanup == [finished |-> FALSE, completed |-> FALSE, tracked |-> {}, attempted |-> {},
              failed |-> {}, dropped |-> {}, mapAfter |-> << >>]

SeederInit ==
  /\ createdData = << >>
  /\ sdPending = {}
  /\ sdStarted = 0
  /\ clPc = "idle"
  /\ clEntities = << >>
  /\ clE = 1
  /\ clI = 1
  /\ clTracked = {}
  /\ clAttempted = {}
  /\ clFailed = {}
  /\ clLast = NoCleanup

\* seed(entity, data, { cleanup }) -> _seedSingle up to the await of the POST
SeedStart ==
  /\ sdStarted < MaxSeeds
  /\ sdStarted' = sdStarted + 1
  /\ \E entity \in Entities, cleanup \in BOOLEAN :
       sdPending' = sdPending \cup {[n |-> sdStarted + 1, entity |-> entity, cleanup |-> cleanup]}
  /\ UNCHANGED <<createdData, clPc, clEntities, clE, clI, clTracked, clAttempted, clFailed,
                 clLast>>
  /\ UNCHANGED notSd

\* the POST resolved: the item is tracked if cleanup was requested
SeedCreated ==
  /\ \E call \in sdPending :
       /\ sdPending' = sdPending \ {call}
       /\ createdData' = IF call.cleanup THEN Track(createdData, call.entity, call.n)
                          ELSE createdData
  /\ UNCHANGED <<sdStarted, clPc, clEntities, clE, clI, clTracked, clAttempted, clFailed,
                 clLast>>
  /\ UNCHANGED notSd

\* the POST rejected: seed logs and rethrows, nothing is tracked
SeedFailed ==
  /\ \E call \in sdPending : sdPending' = sdPending \ {call}
  /\ UNCHANGED <<createdData, sdStarted, clPc, clEntities, clE, clI, clTracked,
                 clAttempted, clFailed, clLast>>
  /\ UNCHANGED notSd

\* cleanup() runs from position (e, i) to its next await or to its end:
\* either it calls DELETE for the next item, or the loops are over and it
\* clears the tracking map
CleanupResume(entities, tracked, attempted, failed, e, i) ==
  LET pos == Advance(entities, createdData, e, i)
  IN  IF pos.e <= Len(entities)
      THEN /\ clPc' = "deleting"
           /\ clE' = pos.e
           /\ clI' = pos.i
           /\ clAttempted' = attempted \cup {ItemsOf(createdData, entities[pos.e])[pos.i]}
           /\ UNCHANGED <<createdData, clLast>>
      ELSE /\ clPc' = "idle"
           /\ clE' = pos.e
           /\ clI' = pos.i
           /\ clAttempted' = attempted
           /\ createdData' = << >>
           /\ clLast' = [finished |-> TRUE, completed |-> TRUE, tracked |-> tracked,
                         attempted |-> attempted, failed |-> failed,
                         dropped |-> TrackedIds(createdData) \ attempted,
                         mapAfter |-> createdData']

\* cleanup() is called: entities = Array.from(createdData.entries()).reverse()
CleanupStart ==
  /\ clPc = "idle"
  /\ clEntities' = Reverse([e \in 1..Len(createdData) |-> createdData[e].entity])
  /\ clTracked' = TrackedIds(createdData)
  /\ clFailed' = {}
  /\ CleanupResume(clEntities', clTracked', {}, {}, 1, 1)
  /\ UNCHANGED <<sdPending, sdStarted>>
  /\ UNCHANGED notSd

\* the awaited DELETE settled: resolved, or rejected into the catch block
CleanupDeleteSettled ==
  /\ clPc = "deleting"
  /\ \E threw \in BOOLEAN :
       /\ clFailed' = IF threw
                       THEN clFailed \cup {ItemsOf(createdData, clEntities[clE])[clI]}
                       ELSE clFailed
       /\ IF threw /\ AfterDeleteFailure = "abort"
          THEN /\ clPc' = "idle"
               /\ clLast' = [finished |-> TRUE, completed |-> FALSE, tracked |-> clTracked,
                             attempted |-> clAttempted, failed |-> clFailed',
                             dropped |-> {}, mapAfter |-> createdData]
               /\ UNCHANGED <<createdData, clE, clI, clAttempted>>
          ELSE CleanupResume(clEntities, clTracked, clAttempted, clFailed', clE, clI + 1)
  /\ UNCHANGED <<sdPending, sdStarted, clEntities, clTracked>>
  /\ UNCHANGED notSd

SeederNext ==
  \/ SeedStart
  \/ SeedCreated
  \/ SeedFailed
  \/ CleanupStart
  \/ CleanupDeleteSettled

(***************************************************************************)
(* utils/mcpClient: one request through the request interceptor, the server *)
(* and the response interceptor.                                            *)
(***************************************************************************)
MaxRequests == 3

\* cap of the model on the sends of one request (the code sets no such cap)
MaxSends == 3

Statuses == {200, 401, 500}

\* authenticate(): a token, a token that is expired when next looked at, or
\* the Error 'Failed to authenticate with MCP'
AuthOutcomes == {"valid", "expired", "failed"}

AuthError == "Failed to authenticate with MCP"

\* request interceptor: !this.accessToken || this.tokenExpiry < Date.now()
NeedsAuth(token) == token # "valid"

\* a response interceptor that does not look at _retry
ShouldRetry_NoFlag(status, retry) == status = 401

\* response interceptor: error.response?.status === 401 && !originalRequest._retry
ShouldRetry(status, retry) == status = 401 /\ ~retry

McpInit ==
  /\ mcPc = "idle"
  /\ mcToken = "none"
  /\ mcRetry = FALSE
  /\ mcRequests = 0
  /\ mcSends = 0
  /\ mcReauths = 0
  /\ mcAuths = << >>
  /\ mcResponses = << >>
  /\ mcError = ""

\* this.axiosInstance.get/post(...): a new request config; the token may have
\* expired since the last request
McpRequest ==
  /\ mcPc \in {"idle", "resolved", "rejected"}
  /\ mcRequests < MaxRequests
  /\ mcRequests' = mcRequests + 1
  /\ mcToken' \in (IF mcToken = "valid" THEN {"valid", "expired"} ELSE {mcToken})
  /\ mcPc' = "sending"
  /\ mcRetry' = FALSE
  /\ mcSends' = 0
  /\ mcReauths' = 0
  /\ mcAuths' = << >>
  /\ mcResponses' = << >>
  /\ mcError' = ""
  /\ UNCHANGED notMc

\* the request interceptor, then the dispatch of the request: authenticate()
\* if there is no usable token; its Error rejects the request unsent
McpSend ==
  /\ mcPc = "sending"
  /\ mcSends < MaxSends
  /\ IF NeedsAuth(mcToken)
     THEN \E auth \in AuthOutcomes :
            /\ mcAuths' = Append(mcAuths, auth)
            /\ IF auth = "failed"
               THEN /\ mcPc' = "rejected"
                    /\ mcError' = AuthError
                    /\ UNCHANGED <<mcToken, mcSends>>
               ELSE /\ mcToken' = auth
                    /\ mcPc' = "inflight"
                    /\ mcSends' = mcSends + 1
                    /\ UNCHANGED mcError
     ELSE /\ mcPc' = "inflight"
          /\ mcSends' = mcSends + 1
          /\ UNCHANGED <<mcToken, mcAuths, mcError>>
  /\ UNCHANGED <<mcRetry, mcRequests, mcReauths, mcResponses>>
  /\ UNCHANGED notMc

\* the server answered: the response interceptor
McpResponse ==
  /\ mcPc = "inflight"
  /\ \E status \in Statuses :
       /\ mcResponses' = Append(mcResponses, status)
       /\ IF status = 200
          THEN /\ mcPc' = "resolved"
               /\ UNCHANGED <<mcToken, mcRetry, mcReauths, mcAuths, mcError>>
          ELSE IF ShouldRetry(status, mcRetry)
          THEN /\ mcRetry' = TRUE
               /\ mcReauths' = mcReauths + 1
               /\ \E auth \in AuthOutcomes :
                    /\ mcAuths' = Append(mcAuths, auth)
                    /\ IF auth = "failed"
                       THEN /\ mcPc' = "rejected"
                            /\ mcError' = AuthError
                            /\ UNCHANGED mcToken
                       ELSE /\ mcToken' = auth
                            /\ mcPc' = "sending"
                            /\ UNCHANGED mcError
          ELSE /\ mcPc' = "rejected"
               /\ mcError' = ToString(status)
               /\ UNCHANGED <<mcToken, mcRetry, mcReauths, mcAuths>>
  /\ UNCHANGED <<mcRequests, mcSends>>
  /\ UNCHANGED notMc

McpNext == McpRequest \/ McpSend \/ McpResponse

(***************************************************************************)
(* utils/browserManager: the singleton's launchBrowser, createContext,      *)
(* createPage, closePage and closeBrowser, called by callers that may run   *)
(* concurrently.  Every await is a point where another caller may run.      *)
(***************************************************************************)
MaxOps == 4

Callers == {1, 2}

Idle == [op |-> "none", target |-> 0]

NothingYet == [browser |-> 0, context |-> 0, page |-> 0]

BrowserManagerInit ==
  /\ bmCall = [c \in Callers |-> Idle]
  /\ bmGot = [c \in Callers |-> NothingYet]
  /\ bmHist = [c \in Callers |-> << >>]
  /\ bmCtxBrowser = EmptyObj
  /\ bmPageCtx = EmptyObj
  /\ bmNextId = 1
  /\ bmOps = 0

\* caller c is free to make a call
CanCall(c) == bmCall[c].op = "none" /\ bmOps < MaxOps

\* the call of caller c has ended; `done` is what the caller saw
Ended(c, done) ==
  /\ bmCall' = [bmCall EXCEPT ![c] = Idle]
  /\ bmHist' = [bmHist EXCEPT ![c] = Append(@, done)]

\* launchBrowser up to: await launcher.launch(...)
LaunchBrowser(c) ==
  /\ CanCall(c)
  /\ bmOps' = bmOps + 1
  /\ bmCall' = [bmCall EXCEPT ![c] = [op |-> "launch", target |-> 0]]
  /\ UNCHANGED <<bm, bmGot, bmHist, bmCtxBrowser, bmPageCtx, bmNextId>>
  /\ UNCHANGED notBm

\* launch resolved: this.browser = <the new browser>; return this.browser
BrowserLaunched(c) ==
  /\ bmCall[c].op = "launch"
  /\ bm' = [bm EXCEPT !.browser = bmNextId]
  /\ bmGot' = [bmGot EXCEPT ![c].browser = bmNextId]
  /\ bmNextId' = bmNextId + 1
  /\ Ended(c, "launchBrowser")
  /\ UNCHANGED <<bmCtxBrowser, bmPageCtx, bmOps>>
  /\ UNCHANGED notBm

\* createContext: throws without a browser, else up to:
\* await this.browser.newContext(...)
CreateContext(c) ==
  /\ CanCall(c)
  /\ bmOps' = bmOps + 1
  /\ IF bm.browser = 0
     THEN Ended(c, "createContext threw")
     ELSE /\ bmCall' = [bmCall EXCEPT ![c] = [op |-> "context", target |-> bm.browser]]
          /\ UNCHANGED bmHist
  /\ UNCHANGED <<bm, bmGot, bmCtxBrowser, bmPageCtx, bmNextId>>
  /\ UNCHANGED notBm

\* newContext resolved: this.context = <the new context>; return this.context.
\* Within createPage (op pageContext) the same assignment is made once more and
\* createPage goes on to await this.context.newPage()
ContextCreated(c) ==
  /\ bmCall[c].op \in {"context", "pageContext"}
  /\ bm' = [bm EXCEPT !.context = bmNextId]
  /\ bmCtxBrowser' = Spread(bmCtxBrowser, [x \in {bmNextId} |-> bmCall[c].target])
  /\ bmNextId' = bmNextId + 1
  /\ IF bmCall[c].op = "context"
     THEN /\ bmGot' = [bmGot EXCEPT ![c].context = bmNextId]
          /\ Ended(c, "createContext")
     ELSE /\ bmCall' = [bmCall EXCEPT ![c] = [op |-> "page", target |-> bmNextId]]
          /\ UNCHANGED <<bmGot, bmHist>>
  /\ UNCHANGED <<bmPageCtx, bmOps>>
  /\ UNCHANGED notBm

\* createPage: without a context, this.context = await this.createContext()
\* first; else up to: await this.context.newPage()
CreatePage(c) ==
  /\ CanCall(c)
  /\ bmOps' = bmOps + 1
  /\ IF bm.context # 0
     THEN /\ bmCall' = [bmCall EXCEPT ![c] = [op |-> "page", target |-> bm.context]]
          /\ UNCHANGED bmHist
     ELSE IF bm.browser # 0
     THEN /\ bmCall' = [bmCall EXCEPT ![c] = [op |-> "pageContext", target |-> bm.browser]]
          /\ UNCHANGED bmHist
     ELSE Ended(c, "createPage threw")
  /\ UNCHANGED <<bm, bmGot, bmCtxBrowser, bmPageCtx, bmNextId>>
  /\ UNCHANGED notBm

\* newPage resolved: this.page = <the new page>; return this.page
PageCreated(c) ==
  /\ bmCall[c].op = "page"
  /\ bm' = [bm EXCEPT !.page = bmNextId]
  /\ bmPageCtx' = Spread(bmPageCtx, [x \in {bmNextId} |-> bmCall[c].target])
  /\ bmGot' = [bmGot EXCEPT ![c].page = bmNextId]
  /\ bmNextId' = bmNextId + 1
  /\ Ended(c, "createPage")
  /\ UNCHANGED <<bmCtxBrowser, bmOps>>
  /\ UNCHANGED notBm

\* closePage: nothing without a page, else up to: await this.page.close()
ClosePage(c) ==
  /\ CanCall(c)
  /\ bmOps' = bmOps + 1
  /\ IF bm.page = 0
     THEN Ended(c, "closePage")
     ELSE /\ bmCall' = [bmCall EXCEPT ![c] = [op |-> "closePage", target |-> bm.page]]
          /\ UNCHANGED bmHist
  /\ UNCHANGED <<bm, bmGot, bmCtxBrowser, bmPageCtx, bmNextId>>
  /\ UNCHANGED notBm

\* page.close() resolved: this.page = null
PageClosed(c) ==
  /\ bmCall[c].op = "closePage"
  /\ bm' = [bm EXCEPT !.page = 0]
  /\ Ended(c, "closePage")
  /\ UNCHANGED <<bmGot, bmCtxBrowser, bmPageCtx, bmNextId, bmOps>>
  /\ UNCHANGED notBm

\* closeBrowser: nothing without a browser, else up to: await this.browser.close()
CloseBrowser(c) ==
  /\ CanCall(c)
  /\ bmOps' = bmOps + 1
  /\ IF bm.browser = 0
     THEN Ended(c, "closeBrowser")
     ELSE /\ bmCall' = [bmCall EXCEPT ![c] = [op |-> "closeBrowser", target |-> bm.browser]]
          /\ UNCHANGED bmHist
  /\ UNCHANGED <<bm, bmGot, bmCtxBrowser, bmPageCtx, bmNextId>>
  /\ UNCHANGED notBm

\* browser.close() resolved: this.browser = this.context = this.page = null
BrowserClosed(c) ==
  /\ bmCall[c].op = "closeBrowser"
  /\ bm' = [bm EXCEPT !.browser = 0, !.context = 0, !.page = 0]
  /\ Ended(c, "closeBrowser")
  /\ UNCHANGED <<bmGot, bmCtxBrowser, bmPageCtx, bmNextId, bmOps>>
  /\ UNCHANGED notBm

\* the awaited call of Playwright rejected: the method throws at its await,
\* before its assignment
CallRejected(c) ==
  /\ bmCall[c].op # "none"
  /\ Ended(c, bmCall[c].op \o " rejected")
  /\ UNCHANGED <<bm, bmGot, bmCtxBrowser, bmPageCtx, bmNextId, bmOps>>
  /\ UNCHANGED notBm

BrowserManagerNext ==
  \E c \in Callers :
     \/ LaunchBrowser(c)
     \/ BrowserLaunched(c)
     \/ CreateContext(c)
     \/ ContextCreated(c)
     \/ CreatePage(c)
     \/ PageCreated(c)
     \/ ClosePage(c)
     \/ PageClosed(c)
     \/ CloseBrowser(c)
     \/ BrowserClosed(c)
     \/ CallRejected(c)

Init ==
  /\ ScenarioInit /\ WorkflowInit /\ AccumulatorInit /\ DataManagerInit /\ SeederInit
  /\ McpInit /\ BrowserManagerInit

(***************************************************************************)
(* TestOrchestrator.runTest and the engine's walk of the graph.             *)
(***************************************************************************)
\* an initialState built on the state the previous run ended with
InitialState_KeepsLastRun(seed, options) ==
  Spread(st, [testData |-> Spread(EmptyObj, options)])

\* initialState of runTest: { ...this.state, testData: { ...options } }
InitialState(seed, options) ==
  Spread(seed, [testData |-> Spread(EmptyObj, options)])

\* runTest(options) up to the call of compiledWorkflow.invoke(initialState)
RunTestStart ==
  /\ rtPc \in {"idle", "returned", "raised"}
  /\ runs < MaxRuns
  /\ runs' = runs + 1
  /\ \E options \in OptionsIn :
       /\ rtOptions' = options
       /\ st' = InitialState(orchState, options)
  /\ rtPc' = EntryPoint
  /\ rtPath' = << >>
  /\ rtEnv' = NoEnv
  /\ rtBefore' = st'
  /\ rtDelta' = EmptyObj
  /\ rtCatchArg' = EmptyObj
  /\ rtError' = ""
  /\ rtResult' = EmptyObj
  /\ UNCHANGED <<orchState, testDataCache, bm, nextBrowser, closeCalls, initCalls>>
  /\ UNCHANGED notWf

\* the engine ran `node`, which returned `delta`
EngineStep(node, delta) ==
  /\ st' = ApplyDelta(st, delta)
  /\ rtBefore' = st
  /\ rtDelta' = delta
  /\ rtPath' = Append(rtPath, node)
  /\ rtPc' \in NextNodes(node)

\* node setupTestData: testDataManager.getTestData('test-config', { cache: true })
NodeSetupTestData ==
  /\ rtPc = "setupTestData"
  /\ \/ /\ "test-config" \in DOMAIN testDataCache
        /\ rtEnv' = [rtEnv EXCEPT !.data = "cached"]
        /\ EngineStep("setupTestData", SetupTestDataOk(st, testDataCache["test-config"]))
        /\ UNCHANGED testDataCache
     \/ /\ "test-config" \notin DOMAIN testDataCache
        /\ \E data \in TestConfigs :
             /\ testDataCache' = Spread(testDataCache, [k \in {"test-config"} |-> data])
             /\ EngineStep("setupTestData", SetupTestDataOk(st, data))
        /\ rtEnv' = [rtEnv EXCEPT !.data = "ok"]
     \/ /\ "test-config" \notin DOMAIN testDataCache
        /\ rtEnv' = [rtEnv EXCEPT !.data = "failed"]
        /\ EngineStep("setupTestData", SetupTestDataFailed(st, DataError))
        /\ UNCHANGED testDataCache
  /\ UNCHANGED <<orchState, bm, nextBrowser, closeCalls, initCalls, runs, rtOptions,
                 rtCatchArg, rtError, rtResult>>
  /\ UNCHANGED notWf

\* browserManager.initialize(), called when browserConfigs is empty: the
\* configurations of MCP, or the defaults when getConfig rejects
ConfigsAfterInitialize(configs) ==
  IF configs = {} THEN { {}, {"chromium"}, DefaultConfigs } ELSE { configs }

\* node setupBrowser: initialize if needed, launchBrowser, createContext, createPage
NodeSetupBrowser ==
  /\ rtPc = "setupBrowser"
  /\ initCalls' = IF bm.configs = {} THEN initCalls + 1 ELSE initCalls
  /\ \E configs \in ConfigsAfterInitialize(bm.configs) :
       \/ /\ bm' = [bm EXCEPT !.configs = configs]
          /\ rtEnv' = [rtEnv EXCEPT !.browser = "launchFailed"]
          /\ EngineStep("setupBrowser", SetupBrowserFailed(st, LaunchError))
          /\ UNCHANGED nextBrowser
       \/ /\ bm' = [bm EXCEPT !.configs = configs, !.browser = nextBrowser]
          /\ rtEnv' = [rtEnv EXCEPT !.browser = "contextFailed"]
          /\ EngineStep("setupBrowser", SetupBrowserFailed(st, ContextError))
          /\ nextBrowser' = nextBrowser + 1
       \/ /\ bm' = [bm EXCEPT !.configs = configs, !.browser = nextBrowser,
                              !.context = nextBrowser]
          /\ rtEnv' = [rtEnv EXCEPT !.browser = "pageFailed"]
          /\ EngineStep("setupBrowser", SetupBrowserFailed(st, PageError))
          /\ nextBrowser' = nextBrowser + 1
       \/ /\ bm' = [bm EXCEPT !.configs = configs, !.browser = nextBrowser,
                              !.context = nextBrowser, !.page = nextBrowser]
          /\ rtEnv' = [rtEnv EXCEPT !.browser = "ok"]
          /\ EngineStep("setupBrowser",
               SetupBrowserOk(st, [browser |-> nextBrowser, context |-> nextBrowser,
                                   page |-> nextBrowser]))
          /\ nextBrowser' = nextBrowser + 1
  /\ UNCHANGED <<orchState, testDataCache, closeCalls, runs, rtOptions,
                 rtCatchArg, rtError, rtResult>>
  /\ UNCHANGED notWf

\* node executeTest: the destructuring of browserContexts.default is outside
\* the try block
NodeExecuteTest ==
  /\ rtPc = "executeTest"
  /\ \/ /\ "default" \notin DOMAIN st.browserContexts
        /\ rtPath' = Append(rtPath, "executeTest")
        /\ rtError' = NoDefaultError
        /\ rtPc' = "catch"
        /\ UNCHANGED <<st, rtEnv, rtBefore, rtDelta>>
     \/ /\ "default" \in DOMAIN st.browserContexts
        /\ \E title \in Titles :
             /\ rtEnv' = [rtEnv EXCEPT !.page = title]
             /\ EngineStep("executeTest", ExecuteTestOk(st, title))
        /\ UNCHANGED rtError
     \/ /\ "default" \in DOMAIN st.browserContexts
        /\ rtEnv' = [rtEnv EXCEPT !.page = "failed"]
        /\ EngineStep("executeTest", ExecuteTestFailed(st, NavigationError))
        /\ UNCHANGED rtError
  /\ UNCHANGED <<orchState, testDataCache, bm, nextBrowser, closeCalls, initCalls, runs,
                 rtOptions, rtCatchArg, rtResult>>
  /\ UNCHANGED notWf

\* node handleError
NodeHandleError ==
  /\ rtPc = "handleError"
  /\ EngineStep("handleError", HandleErrorDelta(st))
  /\ UNCHANGED <<orchState, testDataCache, bm, nextBrowser, closeCalls, initCalls, runs,
                 rtOptions, rtEnv, rtCatchArg, rtError, rtResult>>
  /\ UNCHANGED notWf

\* node teardown: close() of some of the browsers throws
NodeTeardown ==
  /\ rtPc = "teardown"
  /\ closeCalls' = closeCalls \cup TeardownCloses(st)
  /\ \E threw \in SUBSET TeardownCloses(st) :
       /\ rtEnv' = [rtEnv EXCEPT !.closeThrew = threw]
       /\ IF threw # {} /\ TeardownRethrows
          THEN /\ rtPath' = Append(rtPath, "teardown")
               /\ rtError' = CloseError
               /\ rtPc' = "catch"
               /\ UNCHANGED <<st, rtBefore, rtDelta>>
          ELSE /\ EngineStep("teardown", TeardownDelta(st))
               /\ UNCHANGED rtError
  /\ UNCHANGED <<orchState, testDataCache, bm, nextBrowser, initCalls, runs,
                 rtOptions, rtCatchArg, rtResult>>
  /\ UNCHANGED notWf

\* compiledWorkflow.invoke rejects for a reason of the engine's own
EngineFault ==
  /\ rtPc \in Nodes
  /\ rtError' = EngineError
  /\ rtPc' = "catch"
  /\ UNCHANGED <<orchState, testDataCache, bm, nextBrowser, closeCalls, initCalls, runs,
                 rtOptions, st, rtPath, rtEnv, rtBefore, rtDelta, rtCatchArg, rtResult>>
  /\ UNCHANGED notWf

\* the state the catch block of runTest hands to _teardown
CatchTeardownArg(error) ==
  Spread(orchState,
         [errors |-> Append(OrEmpty(orchState, "errors"), ErrorRecord("runTest", error))])

\* the catch block of runTest: _teardown, then throw error
RunTestCatch ==
  /\ rtPc = "catch"
  /\ rtCatchArg' = CatchTeardownArg(rtError)
  /\ closeCalls' = closeCalls \cup TeardownCloses(rtCatchArg')
  /\ \E threw \in SUBSET TeardownCloses(rtCatchArg') :
       /\ rtEnv' = [rtEnv EXCEPT !.closeThrew = @ \cup threw]
       /\ rtError' = IF threw # {} /\ TeardownRethrows THEN CloseError ELSE rtError
  /\ rtPc' = "raised"
  /\ UNCHANGED <<orchState, testDataCache, bm, nextBrowser, initCalls, runs,
                 rtOptions, st, rtPath, rtBefore, rtDelta, rtResult>>
  /\ UNCHANGED notWf

\* invoke resolved: runTest logs the summary and returns the result
RunTestReturn ==
  /\ rtPc = "done"
  /\ rtResult' = st
  /\ rtPc' = "returned"
  /\ UNCHANGED <<orchState, testDataCache, bm, nextBrowser, closeCalls, initCalls, runs,
                 rtOptions, st, rtPath, rtEnv, rtBefore, rtDelta, rtCatchArg, rtError>>
  /\ UNCHANGED notWf

Next ==
  \/ RunTestStart
  \/ NodeSetupTestData
  \/ NodeSetupBrowser
  \/ NodeExecuteTest
  \/ NodeHandleError
  \/ NodeTeardown
  \/ EngineFault
  \/ RunTestCatch
  \/ RunTestReturn

Spec == Init /\ [][Next]_vars

SpecScenario == Init /\ [][ScenarioNext]_vars

SpecReducer == Init /\ [][AccumulatorNext]_vars

SpecData == Init /\ [][DataManagerNext]_vars

SpecSeeder == Init /\ [][SeederNext]_vars

SpecBrowser == Init /\ [][BrowserManagerNext]_vars

\* every HTTP call of mcpClient is answered or fails, so a request that can
\* take a step eventually takes it
SpecMcp == Init /\ [][McpNext]_vars /\ WF_vars(McpSend) /\ WF_vars(McpResponse)

(***************************************************************************)
(* Properties of the scenario runner, checked under SpecScenario.           *)
(***************************************************************************)
\* spy: how often the step at `index` was invoked
Invocations(index) == Cardinality({ i \in 1..Len(scCalls) : scCalls[i].index = index })

\* the step that failed (the callable returns at the first failure)
FailedIndex == CHOOSE k \in scThrew : TRUE

HasOnly(obj, present, absent) == present \subseteq DOMAIN obj /\ absent \cap DOMAIN obj = {}

\* C1: once the step at 0-based index k has thrown, every step at an index up
\* to k has been invoked exactly once and no step after k is ever invoked;
\* before any failure no step has been invoked twice.
C1_NoStepAfterFirstThrow ==
  /\ \A j \in 0..(Len(scSteps) - 1) : Invocations(j) <= 1
  /\ \A k \in scThrew : \A j \in 0..(Len(scSteps) - 1) :
       Invocations(j) = IF j <= k THEN 1 ELSE 0

\* C1 witness: the second of three steps threw and the callable returned
C1_Witness ==
  scPc = "returned" /\ Len(scSteps) = 3 /\ scThrew = {1} /\ Len(scCalls) = 2

\* C2 as claimed: if the step at index k-1 is the first to fail, the returned
\* testResults has exactly k entries and errors exactly one, tagged step_{k-1}.
C2_ExactlyKOutcomes ==
  (scPc = "returned" /\ scThrew # {}) =>
     /\ Len(scRet.testResults) = FailedIndex + 1
     /\ Len(scRet.errors) = 1
     /\ scRet.errors[1].step = StepName(FailedIndex)

\* C2 amended: the returned testResults is the accumulated state's testResults
\* followed by exactly k synthetic outcomes step_0 .. step_{k-1}, all success
\* but the last, which is failed; the returned errors is the accumulated
\* state's errors followed by exactly one record tagged step_{k-1}.
C2_KOutcomesAppended ==
  (scPc = "returned" /\ scThrew # {}) =>
     LET k == FailedIndex + 1
         base == OrEmpty(scCur, "testResults")
         baseErrors == OrEmpty(scCur, "errors")
         n == Len(base)
     IN  /\ scThrew = {FailedIndex}
         /\ Len(scRet.testResults) = n + k
         /\ SubSeq(scRet.testResults, 1, n) = base
         /\ \A i \in 1..(k - 1) :
              scRet.testResults[n + i] = [step |-> StepName(i - 1), status |-> "success"]
         /\ scRet.testResults[n + k].step = StepName(k - 1)
         /\ scRet.testResults[n + k].status = "failed"
         /\ Len(scRet.errors) = Len(baseErrors) + 1
         /\ SubSeq(scRet.errors, 1, Len(baseErrors)) = baseErrors
         /\ scRet.errors[Len(scRet.errors)].step = StepName(k - 1)
         /\ (n = 0 /\ baseErrors = << >>) =>
              (Len(scRet.testResults) = k /\ Len(scRet.errors) = 1)

\* C2 witness: the third step failed on a state that already carried one
\* outcome and one error
C2_Witness ==
  /\ scPc = "returned" /\ scThrew = {2}
  /\ Len(OrEmpty(scCur, "testResults")) = 1 /\ Len(OrEmpty(scCur, "errors")) = 1
  /\ Len(scRet.testResults) = 4 /\ Len(scRet.errors) = 2

\* C3 as claimed: every step is invoked with the handles the callable was
\* invoked with.
C3_HandlesPassedThrough ==
  \A i \in 1..Len(scCalls) : scCalls[i].handles = scArgs[2]

\* C4 as claimed: when every step of a non-empty scenario succeeded, from a state with testResults and
\* testData and without errors, the returned state has an errors sequence of
\* length 0 and only success outcomes.
C4_SuccessHasEmptyErrors ==
  (/\ scPc = "returned" /\ scThrew = {} /\ Len(scSteps) > 0
   /\ HasOnly(scArgs[1], {"testResults", "testData"}, {"errors"})) =>
     /\ "errors" \in DOMAIN scRet
     /\ Len(scRet.errors) = 0
     /\ \A i \in 1..Len(scRet.testResults) : scRet.testResults[i].status = "success"

(***************************************************************************)
(* Properties of runTest, checked under Spec.                               *)
(***************************************************************************)
Finished == rtPc \in {"returned", "raised"}

\* runTest ended without a failure of the engine's own
FinishedNoEngineFault == Finished /\ rtError # EngineError

BrowserFailed == rtEnv.browser \in {"launchFailed", "contextFailed", "pageFailed"}

HasOutcome(results, step, status) ==
  \E i \in 1..Len(results) : results[i].step = step /\ results[i].status = status

HasError(errors, step) == \E i \in 1..Len(errors) : errors[i].step = step

\* C5 as claimed: runTest({}) with a data fetch returning the example baseUrl,
\* a working browser stack and the title 'Example Domain' returns exactly 4
\* outcomes, all success, and no errors.
C5_EndToEndSuccess ==
  (/\ rtPc = "returned" /\ rtOptions = EmptyObj
   /\ rtEnv.data = "ok" /\ testDataCache["test-config"] = [baseUrl |-> "https://example.com"]
   /\ rtEnv.browser = "ok" /\ rtEnv.page = "Example Domain" /\ rtEnv.closeThrew = {}) =>
     /\ Len(rtResult.testResults) = 4
     /\ \A i \in 1..4 : rtResult.testResults[i].status = "success"
     /\ rtResult.errors = << >>

\* C6 as claimed: when the data fetch rejected, the state runTest({}) returns
\* has exactly one entry in errors, for setupTestData, and holds the teardown
\* outcome in testResults.
C6_DataFailure ==
  (rtPc = "returned" /\ rtOptions = EmptyObj /\ rtEnv.data = "failed") =>
     /\ Len(rtResult.errors) = 1
     /\ rtResult.errors[1].step = "setupTestData"
     /\ HasOutcome(rtResult.testResults, "teardown", "completed")

\* C7 as claimed: a run whose setupBrowser failed still reaches teardown and
\* yields a state with a completed outcome.
C7_BrowserFailureReachesTeardown ==
  (FinishedNoEngineFault /\ BrowserFailed) =>
     /\ rtPc = "returned"
     /\ \E i \in 1..Len(rtPath) : rtPath[i] = "teardown"
     /\ HasOutcome(rtResult.testResults, "teardown", "completed")

\* C8 as claimed: when a capability failed inside setupTestData, setupBrowser
\* or executeTest, runTest does not raise and the state it returns holds the
\* failure as an ErrorRecord.
C8_NodeFailuresAreCaptured ==
  (FinishedNoEngineFault /\ (rtEnv.data = "failed" \/ BrowserFailed \/ rtEnv.page = "failed")) =>
     /\ rtPc = "returned"
     /\ rtEnv.data = "failed" => HasError(rtResult.errors, "setupTestData")
     /\ BrowserFailed => HasError(rtResult.errors, "setupBrowser")
     /\ rtEnv.page = "failed" => HasError(rtResult.errors, "executeTest")

C10_ForcedTeardownClosesRecorded ==
  rtPc = "raised" =>
     /\ rtCatchArg # EmptyObj
     /\ \A c \in DOMAIN st.browserContexts : st.browserContexts[c].browser \in closeCalls

\* no capability failed in the nodes that ran
NoNodeFailed == rtEnv.data # "failed" /\ ~BrowserFailed /\ rtEnv.page # "failed"

\* C11 as claimed: in a run where no node fails, the nodes executed are
\* exactly setupTestData, setupBrowser, executeTest, teardown, in this order
\* and once each, and handleError is not executed.
C11_SuccessPathOrder ==
  (FinishedNoEngineFault /\ NoNodeFailed) =>
     rtPath = <<"setupTestData", "setupBrowser", "executeTest", "teardown">>

\* the node at position i of the path recorded a failure
RecordedFailure(i) ==
  \/ rtPath[i] = "setupTestData" /\ rtEnv.data = "failed"
  \/ rtPath[i] = "setupBrowser" /\ BrowserFailed
  \/ rtPath[i] = "executeTest" /\ rtEnv.page = "failed"

\* C12 as claimed: the node executed after a node that recorded a failure is
\* handleError, and the node executed after handleError is teardown.
C12_FailureRoutesToHandleError ==
  \A i \in 1..(Len(rtPath) - 1) :
     /\ RecordedFailure(i) => rtPath[i + 1] = "handleError"
     /\ rtPath[i] = "handleError" => rtPath[i + 1] = "teardown"

\* spy: the deltas that set `key`, and the last of them
Setters(key) == { i \in 1..Len(scDeltas) : key \in DOMAIN scDeltas[i] }

LastSetter(key) == CHOOSE i \in Setters(key) : \A j \in Setters(key) : j <= i

\* the value `key` has in the initial state overlaid with the deltas, in order
Overlaid(key) ==
  IF Setters(key) = {} THEN scArgs[1][key] ELSE scDeltas[LastSetter(key)][key]

OverlaidKeys == (DOMAIN scArgs[1]) \cup UNION { DOMAIN scDeltas[i] : i \in 1..Len(scDeltas) }

\* C13: when the step at index k-1 is the first to fail, the k-1 steps before
\* it each contributed a delta and the returned state has every key of the
\* initial state and of these deltas, with the value of the last delta that set
\* it (else the initial value); for testResults and errors this value is the
\* front of the returned log.
C13_PartialStatePreserved ==
  (scPc = "returned" /\ scThrew # {}) =>
     /\ Len(scDeltas) = FailedIndex
     /\ DOMAIN scRet = OverlaidKeys \cup SeqFields
     /\ \A key \in OverlaidKeys \ SeqFields : scRet[key] = Overlaid(key)
     /\ \A key \in OverlaidKeys \cap SeqFields :
          SubSeq(scRet[key], 1, Len(Overlaid(key))) = Overlaid(key)

\* C13 witness: two deltas set testData, the later one won, then the third
\* step failed
C13_Witness ==
  /\ scPc = "returned" /\ scThrew = {2}
  /\ scSteps = <<"loadData", "setup", "loadDataFails">>
  /\ scArgs[1] = [testResults |-> <<OldOutcome>>, testData |-> "initial", errors |-> <<OldError>>]
  /\ scRet.testData = "seeded"

\* C14 as claimed: a scenario of no steps returns the initial state unchanged,
\* whatever the initial state, and appends no outcome.
C14_EmptyScenarioIsIdentity ==
  (scPc = "returned" /\ scSteps = << >>) => scRet = scArgs[1]

\* C14 amended: a scenario of no steps invokes nothing and returns the initial
\* state with every field unchanged, except that a state without testResults
\* gains testResults = []; no outcome is appended and no errors field is added.
C14_EmptyScenarioKeepsFields ==
  (scPc = "returned" /\ scSteps = << >>) =>
     /\ scCalls = << >>
     /\ DOMAIN scRet = (DOMAIN scArgs[1]) \cup {"testResults"}
     /\ \A key \in DOMAIN scArgs[1] : scRet[key] = scArgs[1][key]
     /\ "testResults" \notin DOMAIN scArgs[1] => scRet.testResults = << >>

\* C14 witness: the empty scenario returned from a state that carried an
\* earlier outcome and an earlier error
C14_Witness ==
  /\ scPc = "returned" /\ scSteps = << >>
  /\ scRet = [testResults |-> <<OldOutcome>>, testData |-> "initial", errors |-> <<OldError>>]

(***************************************************************************)
(* Properties of the reducers, checked under SpecReducer.                   *)
(***************************************************************************)
MapFields == {"testData", "browserContexts"}

\* what delta number i carries for a sequence field (nothing: the empty sequence)
SeqUpdate(i, field) == OrEmpty(accLog[i], field)

\* what delta number i carries for a mapping field (nothing: the empty mapping)
MapUpdate(i, field) == IF field \in DOMAIN accLog[i] THEN accLog[i][field] ELSE EmptyObj

\* C15: a sequence field after any number of merges is the value it started
\* with followed by each delta's entries, in the order the deltas were merged
\* and with nothing dropped: each merge only appends, [a] then [b] gives
\* [a, b], and equal records are kept.
C15_SequenceMergeAppends ==
  \A field \in SeqFields : \A i \in 1..Len(accLog) :
     LET before == accHist[i][field]
         after == IF i = Len(accLog) THEN accState[field] ELSE accHist[i + 1][field]
     IN  /\ Len(after) = Len(before) + Len(SeqUpdate(i, field))
         /\ SubSeq(after, 1, Len(before)) = before
         /\ SubSeq(after, Len(before) + 1, Len(after)) = SeqUpdate(i, field)

\* C15 witness: [a] and then [b] merged into a log that already held a gave
\* [a, a, b]
C15_Witness ==
  /\ Len(accLog) = 2
  /\ accHist[1].testResults = <<ResultA>>
  /\ SeqUpdate(1, "testResults") = <<ResultA>>
  /\ SeqUpdate(2, "testResults") = <<ResultB>>
  /\ accState.testResults = <<ResultA, ResultA, ResultB>>

\* C16: for a mapping field, merging d1 and then d2 into s gives s overlaid
\* with (d1 overlaid with d2); each key has the value of the later delta that
\* carries it, else the earlier delta's, else that of s; and when d1 and d2
\* have no key in common, merging d2 and then d1 gives the same.
C16_MappingMergeComposes ==
  \A field \in MapFields : \A i \in 1..(Len(accLog) - 1) :
     LET s == accHist[i][field]
         d1 == MapUpdate(i, field)
         d2 == MapUpdate(i + 1, field)
         after == IF i + 1 = Len(accLog) THEN accState[field] ELSE accHist[i + 2][field]
     IN  /\ after = Spread(s, Spread(d1, d2))
         /\ DOMAIN after = DOMAIN s \cup DOMAIN d1 \cup DOMAIN d2
         /\ \A key \in DOMAIN after :
              after[key] = IF key \in DOMAIN d2 THEN d2[key]
                           ELSE IF key \in DOMAIN d1 THEN d1[key] ELSE s[key]
         /\ (DOMAIN d1 \cap DOMAIN d2 = {}) => after = Spread(Spread(s, d2), d1)

\* C16 witness: two deltas on the same key of testData, with different values,
\* merged into a state that already had the key, together with two deltas on
\* disjoint keys of browserContexts
C16_Witness ==
  /\ Len(accLog) = 2
  /\ accHist[1].testData = [x |-> 0, z |-> 0]
  /\ MapUpdate(1, "testData") = [x |-> 1] /\ MapUpdate(2, "testData") = [x |-> 2]
  /\ accState.testData = [x |-> 2, z |-> 0]
  /\ MapUpdate(1, "browserContexts") = EmptyObj
  /\ accState.browserContexts = [default |-> 1]

C18_FreshStatePerRun ==
  /\ orchState = SeedState
  /\ (rtPc = EntryPoint /\ rtPath = << >>) =>
        st = [testResults |-> << >>, errors |-> << >>, browserContexts |-> EmptyObj,
              testData |-> rtOptions]

\* C18 witness: a second runTest, with options, starts after a first run that
\* fetched data, launched a browser and closed it
C18_Witness ==
  /\ runs = 2 /\ rtPc = EntryPoint /\ rtPath = << >>
  /\ rtOptions = [baseUrl |-> "https://override.test"]
  /\ closeCalls # {} /\ "test-config" \in DOMAIN testDataCache
  /\ st.testResults = << >>

(***************************************************************************)
(* Properties of testDataManager, checked under SpecData.                   *)
(***************************************************************************)
\* C19 as claimed: a getTestData(key) with cache enabled and refresh false, on
\* a key fetched successfully with caching and not cleared since by
\* clearCache(key) or clearCache(), returns the cached value without a remote
\* fetch; and clearCache(key) removes that key and no other.
C19_CachedUntilCleared ==
  /\ (tdLast.cache /\ ~tdLast.refresh /\ tdLast.known) => (tdLast.hit /\ ~tdLast.fetched)
  /\ \A key \in tdFetchedOk : key \in DOMAIN testDataCache
  /\ (tdLastClear.called /\ tdLastClear.key # Undefined) =>
        /\ DOMAIN tdLastClear.after = (DOMAIN tdLastClear.before) \ {tdLastClear.key}
        /\ \A k \in DOMAIN tdLastClear.after : tdLastClear.after[k] = tdLastClear.before[k]

(***************************************************************************)
(* Properties of TestDataSeeder, checked under SpecSeeder.                  *)
(***************************************************************************)
\* C20: when cleanup() has finished, it completed (no deletion failure ended
\* it), a DELETE was attempted for every item that was tracked when it
\* started, those whose DELETE failed included, and the tracking map was empty
\* when it completed.
C20_CleanupDeletesAllTracked ==
  clLast.finished =>
     /\ clLast.completed
     /\ clLast.tracked \subseteq clLast.attempted
     /\ clLast.failed \subseteq clLast.attempted
     /\ clLast.mapAfter = << >>

\* C20 witness: a cleanup() of three tracked items of two entities completed
\* although two of its DELETE calls failed (so a deletion followed a failure)
C20_Witness ==
  /\ clLast.completed /\ clPc = "idle"
  /\ clLast.tracked = {1, 2, 3} /\ Len(clEntities) = 2
  /\ clLast.attempted = {1, 2, 3}
  /\ clLast.failed = {1, 2}
  /\ createdData = << >>

\* C21 as claimed: each node execution grows the accumulated testResults by
\* at most one record and the accumulated errors by at most one record, and
\* the records already present stay in place, none of them appended again.
C21_NodeAppendsAtMostOne ==
  \A field \in SeqFields :
     /\ Len(st[field]) <= Len(rtBefore[field]) + 1
     /\ SubSeq(st[field], 1, Len(rtBefore[field])) = rtBefore[field]

\* the node that ran last is `node`, and the engine has merged its delta
JustRan(node) ==
  rtPath # << >> /\ rtPath[Len(rtPath)] = node /\ rtPc \in NextNodes(node)

\* C22 as claimed: whenever handleError has run it returned without raising,
\* the last record of testResults is an outcome with status 'error' carrying
\* all the errors accumulated before it ran, and the errors log holds no
\* record more than before.
C22_HandleErrorOnlyRecords ==
  JustRan("handleError") =>
     /\ rtError = ""
     /\ st.testResults[Len(st.testResults)] =
          [step |-> "handleError", status |-> "error", errors |-> rtBefore.errors]
     /\ st.errors = rtBefore.errors

\* C23: every state runTest returns has the outcome {step: 'teardown',
\* status: 'completed'} as the last record of testResults, and teardown is
\* the last node that ran and ran once, whichever path the run took.
C23_TeardownCompletedLast ==
  rtPc = "returned" =>
     /\ rtResult.testResults # << >>
     /\ rtResult.testResults[Len(rtResult.testResults)] = Outcome("teardown", "completed")
     /\ \A i \in 1..Len(rtPath) : rtPath[i] = "teardown" <=> i = Len(rtPath)

\* C23 witness: runTest returned from a run in which the browser setup failed
\* and handleError ran before teardown
C23_Witness ==
  /\ rtPc = "returned" /\ BrowserFailed
  /\ rtPath = <<"setupTestData", "setupBrowser", "handleError", "teardown">>
  /\ rtResult.testResults[Len(rtResult.testResults)].step = "teardown"

\* C24 as claimed: once setupBrowser has executed, browserManager.initialize
\* has been invoked exactly once (by the first execution), and it is never
\* invoked more than once.
C24_InitializeOnFirstSetupOnly ==
  /\ initCalls <= 1
  /\ rtEnv.browser # "none" => initCalls = 1

(***************************************************************************)
(* Properties of mcpClient, checked under SpecMcp.                          *)
(***************************************************************************)
McpSettled == mcPc \in {"resolved", "rejected"}

\* C25 as claimed: a request answered 401 has, once settled, been
\* re-authenticated for once and sent exactly twice.
C25_EachUnauthorizedIsResent ==
  (McpSettled /\ mcResponses # << >> /\ mcResponses[1] = 401) =>
     (mcReauths = 1 /\ mcSends = 2)

\* C25 amended: no request is sent more than twice and the response
\* interceptor re-authenticates at most once per request; a second send
\* happens only after a first 401 and one re-authentication, and always
\* happens when that re-authentication and the resend's own token check
\* succeed; a 401 on the resend is rejected to the caller; a failed
\* authentication rejects the request without resending; and every request
\* is eventually resolved or rejected.
C25_BoundedRetry ==
  /\ [](/\ mcSends <= 2
        /\ mcReauths <= 1
        /\ Len(mcResponses) <= mcSends
        /\ mcSends = 2 => (mcResponses[1] = 401 /\ mcReauths = 1 /\ mcRetry)
        /\ (McpSettled /\ Len(mcResponses) = 2 /\ mcResponses[2] = 401) =>
              (mcPc = "rejected" /\ mcError = "401")
        /\ (McpSettled /\ mcResponses # << >> /\ mcResponses[1] = 401) =>
              /\ mcReauths = 1
              /\ mcSends = 2 <=> (\A i \in 1..Len(mcAuths) : mcAuths[i] # "failed")
        /\ (McpSettled /\ mcError = AuthError) =>
              (mcAuths[Len(mcAuths)] = "failed" /\ Len(mcResponses) = mcSends))
  /\ (mcPc \in {"sending", "inflight"}) ~> McpSettled

\* C25 witness: a request was answered 401 twice: re-authenticated once, sent
\* twice, rejected
C25_Witness ==
  /\ mcPc = "rejected" /\ mcResponses = <<401, 401>>
  /\ mcSends = 2 /\ mcReauths = 1 /\ mcError = "401"

\* C26: a getTestData whose remote fetch failed threw 'Test data not found
\* for key: <key>', and unless another operation changed the cache while the
\* fetch was awaited the cache is exactly what it was when the call started:
\* no entry added and, under refresh, the cached value of the key neither
\* removed nor replaced.
C26_FailureLeavesCache ==
  tdLastFail.called =>
     /\ tdLastFail.error = "Test data not found for key: " \o tdLastFail.key
     /\ ~tdLastFail.disturbed => tdLastFail.after = tdLastFail.atStart

\* C26 witness: a refresh of a cached key failed, and the key still has its value
C26_Witness ==
  /\ tdLastFail.called /\ tdLastFail.refresh /\ ~tdLastFail.disturbed
  /\ tdLastFail.key = "test-config"
  /\ "test-config" \in DOMAIN tdLastFail.atStart
  /\ tdLastFail.after = tdLastFail.atStart

\* setupBrowser launched a browser in the current run
LaunchedInRun == rtEnv.browser \in {"contextFailed", "pageFailed", "ok"}

\* C27 as claimed: when runTest has returned or raised, close() has been
\* called on the browser that setupBrowser launched during the run.
C27_NoBrowserLeak ==
  (Finished /\ LaunchedInRun) => bm.browser \in closeCalls

(***************************************************************************)
(* Properties of browserManager, checked under SpecBrowser.                 *)
(***************************************************************************)
FanOutProgram == <<"launchBrowser", "createContext", "createPage">>

\* caller c has so far done, and is doing, what a task of the fan-out does:
\* launchBrowser, then createContext, then createPage
RunsFanOut(c) ==
  /\ Len(bmHist[c]) <= 3
  /\ \A i \in 1..Len(bmHist[c]) : bmHist[c][i] = FanOutProgram[i]
  /\ \/ bmCall[c].op = "none"
     \/ Len(bmHist[c]) = 0 /\ bmCall[c].op = "launch"
     \/ Len(bmHist[c]) = 1 /\ bmCall[c].op = "context"
     \/ Len(bmHist[c]) = 2 /\ bmCall[c].op = "page"

\* C28 as claimed: when every caller runs launchBrowser, createContext,
\* createPage, the context a caller received was created on the browser that
\* caller launched, and the page it received on the context it received.
C28_FanOutIsolated ==
  (\A c \in Callers : RunsFanOut(c)) =>
     \A c \in Callers :
        /\ bmGot[c].context # 0 => bmCtxBrowser[bmGot[c].context] = bmGot[c].browser
        /\ bmGot[c].page # 0 => bmPageCtx[bmGot[c].page] = bmGot[c].context

\* C29 as claimed: after any sequence of calls made one after the other by one
\* caller, a context the manager holds was created on the browser it holds,
\* and a page it holds was created on the context it holds.
C29_HandlesConsistent ==
  (/\ \A c \in Callers : bmCall[c].op = "none"
   /\ bmHist[2] = << >>) =>
     /\ bm.context # 0 => bmCtxBrowser[bm.context] = bm.browser
     /\ bm.page # 0 => bmPageCtx[bm.page] = bm.context

\* C30 as claimed: when a cleanup() completes, every item it removed from the
\* tracking map, those seeded while it was suspended included, had a DELETE
\* attempted for it by that cleanup.
C30_NoItemDroppedUndeleted ==
  clLast.completed => clLast.dropped = {}

=============================================================================
